---- MODULE Spec2Model ----
(***************************************************************************)
(* Evaluation pipeline of Stereo-3D-Reconstruction:                        *)
(*   utils/data_loaders.py  ShapeNetDataLoader.get_dataset,                *)
(*                          ShapeNetDataLoader.get_files_of_taxonomy,      *)
(*                          ShapeNetDataset.get_datum                      *)
(*   core/test.py           test_net                                       *)
(* Real numbers are exact rationals [n, d]; d = 0 is NaN.                  *)
(***************************************************************************)
EXTENDS Integers, Sequences, FiniteSets, TLC

(* ------------------------------ bounds -------------------------------- *)
\* longest taxonomy manifest
MaxTaxonomies == 2
\* largest number of rendering views asked of get_dataset
MaxViews == 1

(* ------------------------- index builder inputs ----------------------- *)
TaxonomyIds == {"A", "B"}
SampleNames == {"s1", "s2"}
TRAIN == 0
TEST == 1
VAL == 2
DatasetType == {TRAIN, TEST, VAL}

SeqsUpTo(S, k) == UNION {[1..m -> S] : m \in 0..k}

\* the orderings of the sample names, each cut into train / test / val:
\* all in test; one in test, one in val; one in train, one in val
NameOrders == {s \in [1..Cardinality(SampleNames) -> SampleNames] :
                 \A i, j \in DOMAIN s : i # j => s[i] # s[j]}
Segment(s, a, b) == [i \in 1..(b - a) |-> s[a + i]]
Cuts == {<<0, Cardinality(SampleNames)>>, <<0, 1>>, <<1, 1>>}
SplitLists == {[train |-> Segment(sc[1], 0, sc[2][1]),
                test |-> Segment(sc[1], sc[2][1], sc[2][2]),
                val |-> Segment(sc[1], sc[2][2], Len(sc[1]))] :
                 sc \in NameOrders \X Cuts}
TaxonomyEntries == {[taxonomy_id |-> id, train |-> sp.train, test |-> sp.test,
                     val |-> sp.val] : <<id, sp>> \in TaxonomyIds \X SplitLists}
Manifests == SeqsUpTo(TaxonomyEntries, MaxTaxonomies)

\* path templates applied to their arguments (the % operator)
VolumePath(taxonomy_folder_name, sample_name) ==
    <<"volume", taxonomy_folder_name, sample_name>>
ImagePath(kind, taxonomy_folder_name, sample_name, image_idx) ==
    <<kind, taxonomy_folder_name, sample_name, image_idx>>
AllVolumePaths == {VolumePath(t, s) : <<t, s>> \in TaxonomyIds \X SampleNames}

VARIABLES
    dataset_taxonomy,   \* ShapeNetDataLoader.dataset_taxonomy (the manifest)
    volume_files,       \* the volume paths that exist on the storage backend
    files,              \* the file list of the last get_dataset call
    last_call           \* the arguments of the last get_dataset call

ixVars == <<dataset_taxonomy, volume_files, files, last_call>>

NoCall == [dataset_type |-> -1, total_views |-> -1]

(* --------------------------- index builder ---------------------------- *)
\* the per-view paths of one sample, image_idx = 0 .. total_views - 1
ViewPaths(kind, taxonomy_folder_name, sample_name, total_views) ==
    [i \in 1..total_views |->
        ImagePath(kind, taxonomy_folder_name, sample_name, i - 1)]

Descriptor(taxonomy_folder_name, sample_name, total_views) ==
    [taxonomy_name |-> taxonomy_folder_name,
     sample_name |-> sample_name,
     left_rgb_images |-> ViewPaths("left_rgb", taxonomy_folder_name, sample_name, total_views),
     right_rgb_images |-> ViewPaths("right_rgb", taxonomy_folder_name, sample_name, total_views),
     left_disp_images |-> ViewPaths("left_disp", taxonomy_folder_name, sample_name, total_views),
     right_disp_images |-> ViewPaths("right_disp", taxonomy_folder_name, sample_name, total_views),
     volume |-> VolumePath(taxonomy_folder_name, sample_name)]

\* mutant: a sample with a missing volume file is kept
KeepsMissing(volume_file_path, exists) == TRUE

VolumeExists(volume_file_path, exists) == volume_file_path \in exists

RECURSIVE get_files_of_taxonomy(_, _, _, _)
get_files_of_taxonomy(taxonomy_folder_name, samples, total_views, exists) ==
    IF samples = <<>> THEN <<>>
    ELSE LET sample_name == Head(samples)
             volume_file_path == VolumePath(taxonomy_folder_name, sample_name)
             rest == get_files_of_taxonomy(taxonomy_folder_name, Tail(samples),
                                           total_views, exists)
         IN  IF ~VolumeExists(volume_file_path, exists)
             THEN rest
             ELSE <<Descriptor(taxonomy_folder_name, sample_name, total_views)>> \o rest

SamplesOfSplit(taxonomy, dataset_type) ==
    IF dataset_type = TRAIN THEN taxonomy.train
    ELSE IF dataset_type = TEST THEN taxonomy.test
    ELSE IF dataset_type = VAL THEN taxonomy.val
    ELSE <<>>

RECURSIVE get_dataset(_, _, _, _)
get_dataset(taxonomies, dataset_type, total_views, exists) ==
    IF taxonomies = <<>> THEN <<>>
    ELSE LET taxonomy == Head(taxonomies)
             taxonomy_folder_name == taxonomy.taxonomy_id
             samples == SamplesOfSplit(taxonomy, dataset_type)
         IN  get_files_of_taxonomy(taxonomy_folder_name, samples, total_views, exists)
             \o get_dataset(Tail(taxonomies), dataset_type, total_views, exists)

IndexInit ==
    /\ dataset_taxonomy \in Manifests
    /\ volume_files \in SUBSET AllVolumePaths
    /\ files = <<>>
    /\ last_call = NoCall

\* the index builder's variables while another component is under check
IndexIdle ==
    /\ dataset_taxonomy = <<>>
    /\ volume_files = {}
    /\ files = <<>>
    /\ last_call = NoCall

GetDataset ==
    \E dataset_type \in DatasetType, total_views \in 0..MaxViews :
        /\ files' = get_dataset(dataset_taxonomy, dataset_type, total_views, volume_files)
        /\ last_call' = [dataset_type |-> dataset_type, total_views |-> total_views]
        /\ UNCHANGED <<dataset_taxonomy, volume_files>>


(* ------------------------------ numbers ------------------------------- *)
\* a float as an exact rational [n, d] in lowest terms with d > 0;
\* d = 0 is a non-finite value: NaN (n = 0) or an infinity (n = 1, n = -1)
RECURSIVE GCD(_, _)
GCD(a, b) == IF b = 0 THEN a ELSE GCD(b, a % b)
Abs(x) == IF x < 0 THEN -x ELSE x
Sign(x) == IF x < 0 THEN -1 ELSE IF x > 0 THEN 1 ELSE 0
NaN == [n |-> 0, d |-> 0]
Rat(n, d) ==
    IF d = 0 THEN [n |-> Sign(n), d |-> 0]
    ELSE LET g == GCD(Abs(n), Abs(d))
         IN  [n |-> (Sign(d) * n) \div g, d |-> Abs(d) \div g]
IsFinite(x) == x.d > 0
IsNaN(x) == x = NaN
RAdd(x, y) ==
    IF IsFinite(x) /\ IsFinite(y) THEN Rat(x.n * y.d + y.n * x.d, x.d * y.d)
    ELSE IF IsFinite(x) THEN y
    ELSE IF IsFinite(y) \/ x = y THEN x
    ELSE NaN
RMul(x, y) ==
    IF IsFinite(x) /\ IsFinite(y) THEN Rat(x.n * y.n, x.d * y.d)
    ELSE [n |-> Sign(x.n) * Sign(y.n), d |-> 0]
\* IEEE division: 0/0 is NaN, x/0 an infinity
RDiv(x, y) ==
    IF IsFinite(x) /\ IsFinite(y) THEN Rat(x.n * y.d, x.d * y.n)
    ELSE IF IsFinite(x) /\ ~IsNaN(y) THEN Rat(0, 1)
    ELSE IF IsFinite(y) /\ ~IsNaN(x) THEN [n |-> x.n * (IF y.n < 0 THEN -1 ELSE 1), d |-> 0]
    ELSE NaN
\* x >= y; a comparison with NaN is false
RGe(x, y) ==
    IF IsNaN(x) \/ IsNaN(y) THEN FALSE
    ELSE IF IsFinite(x) /\ IsFinite(y) THEN x.n * y.d >= y.n * x.d
    ELSE IF IsFinite(x) THEN y.n < 0
    ELSE IF IsFinite(y) THEN x.n > 0
    ELSE x.n >= y.n
RECURSIVE RSum(_)
RSum(xs) == IF xs = <<>> THEN Rat(0, 1) ELSE RAdd(Head(xs), RSum(Tail(xs)))

(* ---------------------------- sample loader --------------------------- *)
\* number of positions of a voxel grid
NVox == 2
\* longest file list handed to ShapeNetDataset
MaxFileList == 2

\* raw occupancy grids as stored in a volume file
Grids == [1..NVox -> {0, 1}]
\* what scipy.io.loadmat yields: the field names and the 'Volume' array
Containers ==
    {[fields |-> f, Volume |-> <<>>] : f \in {{}, {"__header__"}}}
    \cup {[fields |-> f, Volume |-> g] :
            <<f, g>> \in {{"Volume"}, {"__header__", "Volume"}} \X Grids}
LoaderFolder == "A"
LoaderPaths == {VolumePath(LoaderFolder, s) : s \in SampleNames}
FileLists ==
    {get_files_of_taxonomy(LoaderFolder, names, v, LoaderPaths) :
        <<names, v>> \in SeqsUpTo(SampleNames, MaxFileList) \X (0..MaxViews)}

VARIABLES
    file_list,      \* ShapeNetDataset.file_list
    mat_files,      \* volume path -> the container loadmat reads there
    unreadable,     \* view indexes whose image files cannot be decoded
    datum,          \* the outcome of the last get_datum call
    exit_status     \* -1 while the process runs, else the status of sys.exit

ldVars == <<file_list, mat_files, unreadable, datum, exit_status>>

NoDatum == [kind |-> "none", idx |-> 0, view |-> -1, value |-> <<>>]

\* ndarray.astype(np.float32) of the stored occupancy values
AsFloat32(array) == [i \in DOMAIN array |-> Rat(array[i], 1)]

\* cv2.imread / pyexr.open(...).get("Disparity.Z"), then astype(np.float32)
Decode(path) == <<"float32", path>>

\* mutant: an empty container is passed on instead of ending the process
NeverEmpty(volume) == FALSE

\* `not volume` of a dict
IsEmptyContainer(volume) == volume.fields = {}

\* get_datum(idx) with selected_index = random.choice(range(len(...))),
\* given as -1 when the range is empty
get_datum(list, idx, selected_index, mat, bad_views) ==
    LET d == list[idx]
        volume == mat[d.volume]
    IN  IF selected_index < 0
        THEN [kind |-> "IndexError", idx |-> idx, view |-> selected_index, value |-> <<>>]
        ELSE IF selected_index \in bad_views
        THEN [kind |-> "AttributeError", idx |-> idx, view |-> selected_index, value |-> <<>>]
        ELSE IF IsEmptyContainer(volume)
        THEN [kind |-> "SystemExit", idx |-> idx, view |-> selected_index, value |-> <<2>>]
        ELSE IF "Volume" \notin volume.fields
        THEN [kind |-> "KeyError", idx |-> idx, view |-> selected_index, value |-> <<>>]
        ELSE [kind |-> "return", idx |-> idx, view |-> selected_index,
              value |-> <<d.taxonomy_name, d.sample_name,
                          Decode(d.left_rgb_images[selected_index + 1]),
                          Decode(d.right_rgb_images[selected_index + 1]),
                          Decode(d.left_disp_images[selected_index + 1]),
                          Decode(d.right_disp_images[selected_index + 1]),
                          AsFloat32(volume.Volume)>>]

ChoiceRange(n) == IF n = 0 THEN {-1} ELSE 0..(n - 1)

LoaderInit ==
    /\ file_list \in FileLists
    /\ mat_files \in [LoaderPaths -> Containers]
    /\ unreadable \in SUBSET (0..(MaxViews - 1))
    /\ datum = NoDatum
    /\ exit_status = -1

LoaderIdle ==
    /\ file_list = <<>>
    /\ mat_files = <<>>
    /\ unreadable = {}
    /\ datum = NoDatum
    /\ exit_status = -1

GetDatum ==
    /\ exit_status = -1
    /\ \E idx \in 1..Len(file_list) :
         \E selected_index \in ChoiceRange(Len(file_list[idx].left_rgb_images)) :
            /\ datum' = get_datum(file_list, idx, selected_index, mat_files, unreadable)
            /\ exit_status' = IF datum'.kind = "SystemExit" THEN datum'.value[1] ELSE -1
    /\ UNCHANGED <<file_list, mat_files, unreadable>>

(* ------------------------ test_net: pure steps ------------------------ *)
\* largest size of dimension 1 of a volume returned by recnet
MaxChannels == 2
\* longest test_data_loader
MaxSamples == 2
\* line 134: `if sample_idx < 3`
VisualizedSamples == 3

One == Rat(1, 1)
Zero == Rat(0, 1)

\* lines 107-108: torch.cat((left, right), dim=1) then torch.mean(..., dim=1);
\* a volume of shape (1, C, NVox) is the sequence over dimension 1 of its rows
Cat1(left, right) == left \o right
Mean1(t) ==
    [p \in DOMAIN t[1] |-> RDiv(RSum([c \in DOMAIN t |-> t[c][p]]), Rat(Len(t), 1))]
\* mutant: the two volumes are summed, not averaged
SumFuse(left, right) ==
    [p \in DOMAIN left[1] |-> RSum([c \in DOMAIN Cat1(left, right) |-> Cat1(left, right)[c][p]])]
Fuse(left_generated_volume, right_generated_volume) ==
    Mean1(Cat1(left_generated_volume, right_generated_volume))

\* line 122: torch.ge(generated_volume, th).float()
Binarize(volume, th) ==
    [p \in DOMAIN volume |-> IF RGe(volume[p], th) THEN One ELSE Zero]
\* mutant: the binarized prediction is added to the ground truth, not multiplied
AddIntersection(_volume, gt) ==
    RSum([p \in DOMAIN _volume |-> RAdd(_volume[p], gt[p])])
\* line 123: torch.sum(_volume.mul(ground_truth_volume)).float()
Intersection(_volume, gt) ==
    RSum([p \in DOMAIN _volume |-> RMul(_volume[p], gt[p])])
\* line 124: torch.sum(torch.ge(_volume.add(ground_truth_volume), 1)).float()
Union(_volume, gt) ==
    Rat(Cardinality({p \in DOMAIN _volume : RGe(RAdd(_volume[p], gt[p]), One)}), 1)
\* lines 120-125: one [intersection, union, iou] per threshold, in order
IoUParts(volume, gt, thresholds) ==
    [i \in DOMAIN thresholds |->
        LET _volume == Binarize(volume, thresholds[i])
            intersection == Intersection(_volume, gt)
            union == Union(_volume, gt)
        IN  [th |-> thresholds[i], intersection |-> intersection, union |-> union,
             iou |-> RDiv(intersection, union)]]
SampleIoU(volume, gt, thresholds) ==
    LET parts == IoUParts(volume, gt, thresholds)
    IN  [i \in DOMAIN parts |-> parts[i].iou]

\* test_iou is a dict in insertion order: a sequence of buckets
HasBucket(test_iou, taxonomy_id) ==
    \E i \in DOMAIN test_iou : test_iou[i].taxonomy_id = taxonomy_id
\* lines 128-131
Accumulate(test_iou, taxonomy_id, sample_iou) ==
    LET d == IF HasBucket(test_iou, taxonomy_id) THEN test_iou
             ELSE Append(test_iou, [taxonomy_id |-> taxonomy_id, n_samples |-> 0,
                                    iou |-> <<>>])
    IN  [i \in DOMAIN d |->
            IF d[i].taxonomy_id = taxonomy_id
            THEN [d[i] EXCEPT !.n_samples = @ + 1, !.iou = Append(@, sample_iou)]
            ELSE d[i]]

\* np.mean(vectors, axis=0) and np.sum(vectors, axis=0) of a non-empty list
MeanAxis0(vectors) ==
    [k \in DOMAIN vectors[1] |->
        RDiv(RSum([j \in DOMAIN vectors |-> vectors[j][k]]), Rat(Len(vectors), 1))]
SumAxis0(vectors) ==
    [k \in DOMAIN vectors[1] |-> RSum([j \in DOMAIN vectors |-> vectors[j][k]])]
Scale(vector, c) == [k \in DOMAIN vector |-> RMul(vector[k], Rat(c, 1))]
\* line 158: every bucket's list replaced by its mean vector
MeanPerTaxonomy(test_iou) ==
    [i \in DOMAIN test_iou |-> [test_iou[i] EXCEPT !.iou = MeanAxis0(@)]]
\* lines 156-160; an empty dict leaves the scalar 0.0 / n_samples
OverallMean(test_iou, n) ==
    LET means == MeanPerTaxonomy(test_iou)
        mean_iou == [i \in DOMAIN means |-> Scale(means[i].iou, means[i].n_samples)]
    IN  IF mean_iou = <<>> THEN RDiv(Zero, Rat(n, 1))
        ELSE [k \in DOMAIN SumAxis0(mean_iou) |-> RDiv(SumAxis0(mean_iou)[k], Rat(n, 1))]
\* np.max: NaN if any entry is NaN
RECURSIVE RMax(_)
RMax(v) ==
    IF Len(v) = 1 THEN v[1]
    ELSE LET m == RMax(Tail(v))
         IN  IF IsNaN(v[1]) \/ IsNaN(m) THEN NaN
             ELSE IF RGe(v[1], m) THEN v[1] ELSE m

(* ----------------------- test_net: the state machine ------------------ *)
\* cfg.TEST.VOXEL_THRESH
ThresholdLists ==
    {<<Rat(1, 2)>>, <<Rat(1, 4), Rat(1, 2)>>, <<Rat(1, 4), Rat(1, 2), Rat(3, 4)>>}
\* the names lines 5-24 bind in the module core.test
ImportedNames ==
    {"json", "plt", "np", "os", "torch", "utils", "dt", "SummaryWriter", "time",
     "DispNet", "RecNet", "test_net"}
\* the global names line 111-112 read; no statement of test_net assigns them
LossNames == {"mse_loss", "left_depth_images", "right_depth_images"}
\* volumes of shape (1, C, NVox) with entries 0 and 1
Volumes(C) == [1..C -> [1..NVox -> {Zero, One}]]
\* what recnet returns for the left and the right image of a batch
Flat(C, x) == [c \in 1..C |-> [p \in 1..NVox |-> x]]
Lead(C, x) == [c \in 1..C |-> [p \in 1..NVox |-> IF p = 1 THEN x ELSE Zero]]
RecnetPairs ==
    UNION {{<<Flat(C, One), Flat(C, One)>>, <<Lead(C, One), Flat(C, Zero)>>,
            <<Lead(C, One), Flat(C, One)>>} : C \in 1..MaxChannels}
\* the volume files of a pass
PassContainers ==
    {c \in Containers :
        /\ c.fields # {"Volume"}
        /\ c.Volume \in {<<>>, [p \in 1..NVox |-> 1],
                         [p \in 1..NVox |-> IF p = 1 THEN 1 ELSE 0]}}
\* what one batch of the loader is read from, and recnet's answer to it
Batches ==
    {[taxonomy_id |-> t, sample_name |-> "s1", container |-> c, volumes |-> v] :
        <<t, c, v>> \in TaxonomyIds \X PassContainers \X RecnetPairs}
Loaders == SeqsUpTo(Batches, MaxSamples)

VARIABLES
    pc,                     \* "called", "loop", "body", "returned", "raised"
    module_names,           \* the names bound in the module's namespace
    test_data_loader,       \* the batches the loader will yield
    test_writer,            \* "None" or "SummaryWriter"
    output_dir,             \* "None" or a template
    taxonomies,             \* the taxonomy ids of the taxonomy file (line 35)
    voxel_thresh,           \* cfg.TEST.VOXEL_THRESH
    n_samples,
    sample_idx,
    taxonomy_id,            \* of the batch in hand
    test_iou,
    left_generated_volume,
    right_generated_volume,
    generated_volume,
    ground_truth_volume,
    iou_parts,              \* intersection, union and IoU per threshold
    sample_iou,
    mean_iou,
    max_iou,                \* the value returned
    report,                 \* the rows printed by lines 162-180
    writer_calls,           \* the calls made on test_writer
    error                   \* the exception that ended the call, or "none"

tnInputs == <<module_names, test_data_loader, test_writer, output_dir, taxonomies,
              voxel_thresh>>
tnLocals == <<taxonomy_id, left_generated_volume, right_generated_volume,
              generated_volume, ground_truth_volume, iou_parts, sample_iou>>
tnResults == <<mean_iou, max_iou, report, writer_calls>>
tnVars == <<pc, tnInputs, n_samples, sample_idx, test_iou, tnLocals, tnResults, error>>

vars == <<ixVars, ldVars, tnVars>>

TestNetFresh ==
    /\ pc = "called"
    /\ n_samples = -1
    /\ sample_idx = 0
    /\ taxonomy_id = ""
    /\ test_iou = <<>>
    /\ left_generated_volume = <<>>
    /\ right_generated_volume = <<>>
    /\ generated_volume = <<>>
    /\ ground_truth_volume = <<>>
    /\ iou_parts = <<>>
    /\ sample_iou = <<>>
    /\ mean_iou = <<>>
    /\ max_iou = NaN
    /\ report = <<>>
    /\ writer_calls = <<>>
    /\ error = "none"

TestNetInit ==
    /\ module_names = ImportedNames
    /\ test_data_loader \in Loaders
    /\ test_writer \in {"None", "SummaryWriter"}
    /\ output_dir \in {"None", "./output/%s"}
    /\ taxonomies \in {TaxonomyIds, {"A"}}
    /\ voxel_thresh \in ThresholdLists
    /\ TestNetFresh

TestNetIdle ==
    /\ module_names = ImportedNames
    /\ test_data_loader = <<>>
    /\ test_writer = "None"
    /\ output_dir = "None"
    /\ taxonomies = {}
    /\ voxel_thresh = <<>>
    /\ TestNetFresh

Raise(exception) ==
    /\ pc' = "raised"
    /\ error' = exception

\* lines 28-83: up to the first iteration of the testing loop
Setup ==
    /\ pc = "called"
    /\ pc' = "loop"
    /\ n_samples' = Len(test_data_loader)
    /\ test_iou' = <<>>
    /\ UNCHANGED <<tnInputs, sample_idx, tnLocals, tnResults, error>>

\* lines 85-86: the loader yields the next batch, read by get_datum
NextSample ==
    /\ pc = "loop"
    /\ sample_idx < Len(test_data_loader)
    /\ LET b == test_data_loader[sample_idx + 1]
           d == Descriptor(b.taxonomy_id, b.sample_name, 1)
           got == get_datum(<<d>>, 1, 0, (d.volume :> b.container), {})
       IN  IF got.kind = "return"
           THEN /\ pc' = "body"
                /\ taxonomy_id' = got.value[1]
                /\ ground_truth_volume' = got.value[7]
                /\ UNCHANGED error
           ELSE /\ Raise(got.kind)
                /\ UNCHANGED <<taxonomy_id, ground_truth_volume>>
    /\ UNCHANGED <<tnInputs, n_samples, sample_idx, test_iou, tnResults,
                   left_generated_volume, right_generated_volume, generated_volume,
                   iou_parts, sample_iou>>

\* lines 138-148: the six add_image calls for one sample
ImageCalls(idx) ==
    [k \in 1..6 |-> [method |-> "add_image", idx |-> idx,
                     tag |-> <<"Disparity Estimated/Left", "Disparity GroundTruth/Left",
                               "Disparity Estimated/Right", "Disparity GroundTruth/Right",
                               "Volume Reconstructed", "Volume GroundTruth">>[k]]]
\* lines 185-187
ScalarCalls ==
    [k \in 1..3 |-> [method |-> "add_scalar", idx |-> -1,
                     tag |-> <<"DispNet/EpochLoss", "RecNet/EpochLoss", "RecNet/IoU">>[k]]]

\* lines 119-153, once the losses of lines 111-117 are computed
Measure(left, right) ==
    LET fused == Fuse(left, right)
        parts == IoUParts(fused, ground_truth_volume, voxel_thresh)
        ious == SampleIoU(fused, ground_truth_volume, voxel_thresh)
    IN  /\ left_generated_volume' = left
        /\ right_generated_volume' = right
        /\ generated_volume' = fused
        /\ iou_parts' = parts
        /\ sample_iou' = ious
        /\ test_iou' = Accumulate(test_iou, taxonomy_id, ious)
        /\ IF sample_idx < VisualizedSamples /\ output_dir = "None"
           THEN Raise("TypeError") /\ UNCHANGED <<sample_idx, writer_calls>>
           ELSE IF sample_idx < VisualizedSamples /\ test_writer = "None"
           THEN Raise("AttributeError") /\ UNCHANGED <<sample_idx, writer_calls>>
           ELSE /\ writer_calls' = IF sample_idx < VisualizedSamples
                                   THEN writer_calls \o ImageCalls(sample_idx)
                                   ELSE writer_calls
                /\ sample_idx' = sample_idx + 1
                /\ pc' = "loop"
                /\ UNCHANGED error

\* lines 87-153: the body of the testing loop for the batch in hand
Body ==
    /\ pc = "body"
    /\ IF ~(LossNames \subseteq module_names)
       THEN \* lines 104-108 have run; line 111 reads a name nothing binds
            /\ left_generated_volume' = test_data_loader[sample_idx + 1].volumes[1]
            /\ right_generated_volume' = test_data_loader[sample_idx + 1].volumes[2]
            /\ generated_volume' = Fuse(test_data_loader[sample_idx + 1].volumes[1],
                                        test_data_loader[sample_idx + 1].volumes[2])
            /\ Raise("NameError")
            /\ UNCHANGED <<sample_idx, test_iou, iou_parts, sample_iou, writer_calls>>
       ELSE Measure(test_data_loader[sample_idx + 1].volumes[1],
                    test_data_loader[sample_idx + 1].volumes[2])
    /\ UNCHANGED <<tnInputs, n_samples, taxonomy_id, ground_truth_volume,
                   mean_iou, max_iou, report>>

HeaderRow == [label |-> "Taxonomy", n_samples |-> -1, values |-> voxel_thresh]
TaxonomyRows(means) ==
    [i \in DOMAIN means |-> [label |-> means[i].taxonomy_id,
                             n_samples |-> means[i].n_samples,
                             values |-> means[i].iou]]
\* the rows printed before line 171 meets a taxonomy id the taxonomy file lacks
RECURSIVE KnownPrefix(_)
KnownPrefix(rows) ==
    IF rows = <<>> \/ Head(rows).label \notin taxonomies THEN <<>>
    ELSE <<Head(rows)>> \o KnownPrefix(Tail(rows))

\* lines 155-189: aggregation, report, scalars, return
Finish ==
    /\ pc = "loop"
    /\ sample_idx >= Len(test_data_loader)
    /\ LET means == MeanPerTaxonomy(test_iou)
           overall == OverallMean(test_iou, n_samples)
           rows == TaxonomyRows(means)
       IN  /\ test_iou' = means
           /\ mean_iou' = overall
           /\ IF KnownPrefix(rows) # rows
              THEN /\ Raise("KeyError")
                   /\ report' = <<HeaderRow>> \o KnownPrefix(rows)
                   /\ UNCHANGED <<max_iou, writer_calls>>
              ELSE IF test_iou = <<>>
              THEN \* line 178 iterates over a scalar
                   /\ Raise("TypeError")
                   /\ report' = <<HeaderRow>>
                   /\ UNCHANGED <<max_iou, writer_calls>>
              ELSE /\ report' = <<HeaderRow>> \o rows
                                \o <<[label |-> "Overall", n_samples |-> -1,
                                      values |-> overall]>>
                   /\ max_iou' = RMax(overall)
                   /\ writer_calls' = IF test_writer # "None"
                                      THEN writer_calls \o ScalarCalls
                                      ELSE writer_calls
                   /\ pc' = "returned"
                   /\ UNCHANGED error
    /\ UNCHANGED <<tnInputs, n_samples, sample_idx, tnLocals>>

(* --------------------------- specifications --------------------------- *)
\* test_net as the module stands
Init == IndexIdle /\ LoaderIdle /\ TestNetInit
Next ==
    \/ Setup /\ UNCHANGED <<ixVars, ldVars>>
    \/ NextSample /\ UNCHANGED <<ixVars, ldVars>>
    \/ Body /\ UNCHANGED <<ixVars, ldVars>>
    \/ Finish /\ UNCHANGED <<ixVars, ldVars>>
Spec == Init /\ [][Next]_vars

\* test_net in a namespace where the caller has bound the names of LossNames
\* (a loss function and two tensors): the rest of the loop body and the
\* aggregation then run; used to exercise lines 113-189
InitNamesBound ==
    /\ IndexIdle /\ LoaderIdle
    /\ module_names = ImportedNames \cup LossNames
    /\ test_data_loader \in Loaders
    /\ test_writer \in {"None", "SummaryWriter"}
    /\ output_dir \in {"None", "./output/%s"}
    /\ taxonomies \in {TaxonomyIds, {"A"}}
    /\ voxel_thresh \in ThresholdLists
    /\ TestNetFresh
SpecNamesBound == InitNamesBound /\ [][Next]_vars

\* get_dataset on a loaded manifest
InitIndex == IndexInit /\ LoaderIdle /\ TestNetIdle
NextIndex == GetDataset /\ UNCHANGED <<ldVars, tnVars>>
SpecIndex == InitIndex /\ [][NextIndex]_vars

\* get_datum on a dataset
InitLoader == IndexIdle /\ LoaderInit /\ TestNetIdle
NextLoader == GetDatum /\ UNCHANGED <<ixVars, tnVars>>
SpecLoader == InitLoader /\ [][NextLoader]_vars

\* lines 107-108 applied to any two volumes of one shape
FuseIdle ==
    /\ module_names = ImportedNames
    /\ test_data_loader = <<>>
    /\ test_writer = "None"
    /\ output_dir = "None"
    /\ taxonomies = {}
    /\ n_samples = -1
    /\ sample_idx = 0
    /\ taxonomy_id = ""
    /\ test_iou = <<>>
    /\ iou_parts = <<>>
    /\ sample_iou = <<>>
    /\ mean_iou = <<>>
    /\ max_iou = NaN
    /\ report = <<>>
    /\ writer_calls = <<>>
    /\ error = "none"
InitFuse ==
    /\ IndexIdle /\ LoaderIdle /\ FuseIdle
    /\ pc = "volumes"
    /\ \E C \in 1..MaxChannels :
          /\ left_generated_volume \in Volumes(C)
          /\ right_generated_volume \in Volumes(C)
    /\ generated_volume = <<>>
    /\ ground_truth_volume = <<>>
    /\ voxel_thresh = <<>>
ApplyFuse ==
    /\ pc = "volumes"
    /\ pc' = "fused"
    /\ generated_volume' = Fuse(left_generated_volume, right_generated_volume)
    /\ UNCHANGED <<tnInputs, n_samples, sample_idx, test_iou, taxonomy_id,
                   left_generated_volume, right_generated_volume,
                   ground_truth_volume, iou_parts, sample_iou, tnResults, error>>
NextFuse == ApplyFuse /\ UNCHANGED <<ixVars, ldVars>>
SpecFuse == InitFuse /\ [][NextFuse]_vars

\* lines 119-125 applied to any fused volume, 0/1 ground truth and thresholds
FusedValues == {Rat(0, 1), Rat(1, 4), Rat(1, 2), Rat(3, 4), Rat(1, 1)}
InitIoU ==
    /\ IndexIdle /\ LoaderIdle /\ FuseIdle
    /\ pc = "fused"
    /\ left_generated_volume = <<>>
    /\ right_generated_volume = <<>>
    /\ generated_volume \in [1..NVox -> FusedValues]
    /\ ground_truth_volume \in {AsFloat32(g) : g \in Grids}
    /\ voxel_thresh \in ThresholdLists
ApplyIoU ==
    /\ pc = "fused"
    /\ pc' = "measured"
    /\ iou_parts' = IoUParts(generated_volume, ground_truth_volume, voxel_thresh)
    /\ sample_iou' = SampleIoU(generated_volume, ground_truth_volume, voxel_thresh)
    /\ UNCHANGED <<tnInputs, n_samples, sample_idx, test_iou, taxonomy_id,
                   left_generated_volume, right_generated_volume, generated_volume,
                   ground_truth_volume, tnResults, error>>
NextIoU == ApplyIoU /\ UNCHANGED <<ixVars, ldVars>>
SpecIoU == InitIoU /\ [][NextIoU]_vars

(* ------------------------------- claims ------------------------------- *)
\* the (taxonomy, sample name) pairs of the selected split, manifest order
\* then split-list order, by position
SplitOf(taxonomy, dataset_type) ==
    CASE dataset_type = TRAIN -> taxonomy.train
      [] dataset_type = TEST -> taxonomy.test
      [] dataset_type = VAL -> taxonomy.val
RECURSIVE SelectedPairs(_, _, _, _)
SelectedPairs(manifest, dataset_type, t, k) ==
    IF t > Len(manifest) THEN <<>>
    ELSE IF k > Len(SplitOf(manifest[t], dataset_type))
         THEN SelectedPairs(manifest, dataset_type, t + 1, 1)
         ELSE <<<<manifest[t].taxonomy_id, SplitOf(manifest[t], dataset_type)[k]>>>>
              \o SelectedPairs(manifest, dataset_type, t, k + 1)
HasVolume(pair) == VolumePath(pair[1], pair[2]) \in volume_files
PairsOf(fl) ==
    [i \in 1..Len(fl) |-> <<fl[i].taxonomy_name, fl[i].sample_name>>]

\* C2: get_dataset returns the (taxonomy, sample name) pairs of the selected
\* split, in manifest order then split-list order, restricted to the samples
\* whose volume file exists; each descriptor carries that volume path and
\* total_views paths per image kind.
C2_IndexIsFilteredSplit ==
    last_call # NoCall =>
        /\ PairsOf(files) =
             SelectSeq(SelectedPairs(dataset_taxonomy, last_call.dataset_type, 1, 1), HasVolume)
        /\ \A i \in 1..Len(files) :
             /\ files[i].volume \in volume_files
             /\ files[i].volume = VolumePath(files[i].taxonomy_name, files[i].sample_name)
             /\ Len(files[i].left_rgb_images) = last_call.total_views

\* C2 witness: two taxonomies, a sample kept, a sample skipped for its missing
\* volume, and a taxonomy that contributes nothing
C2_Witness ==
    /\ last_call # NoCall
    /\ Len(dataset_taxonomy) = 2
    /\ Len(files) >= 1
    /\ Len(files) < Len(SelectedPairs(dataset_taxonomy, last_call.dataset_type, 1, 1))
    /\ \E t \in 1..Len(dataset_taxonomy) :
          /\ SplitOf(dataset_taxonomy[t], last_call.dataset_type) # <<>>
          /\ \A i \in 1..Len(files) :
                files[i].taxonomy_name # dataset_taxonomy[t].taxonomy_id

\* the container loadmat read in the last get_datum call
ReadContainer == mat_files[file_list[datum.idx].volume]
\* the call got as far as line 70: a view was chosen and its images decoded
VolumeWasRead == datum.kind # "none" /\ datum.view >= 0 /\ datum.view \notin unreadable

\* C4 as stated: an empty container ends the process with a non-zero status
\* and returns no tuple; a non-empty container returns its 'Volume' field.
C4_EmptyExitsElseVolume ==
    VolumeWasRead =>
        /\ ReadContainer.fields = {} =>
              datum.kind = "SystemExit" /\ exit_status # 0 /\ exit_status # -1
        /\ ReadContainer.fields # {} =>
              /\ datum.kind = "return"
              /\ datum.value[7] = [i \in 1..NVox |-> [n |-> ReadContainer.Volume[i], d |-> 1]]

\* C4 amended: an empty container ends the process with status 2 and returns no
\* tuple; a non-empty container that has a 'Volume' field returns that field as
\* floats; a non-empty container without the field raises KeyError.
C4_EmptyExitsVolumeFieldReturned ==
    VolumeWasRead =>
        /\ ReadContainer.fields = {} =>
              datum.kind = "SystemExit" /\ exit_status = 2
        /\ "Volume" \in ReadContainer.fields =>
              /\ datum.kind = "return" /\ exit_status = -1
              /\ datum.value[1] = file_list[datum.idx].taxonomy_name
              /\ datum.value[2] = file_list[datum.idx].sample_name
              /\ datum.value[7] = [i \in 1..NVox |-> [n |-> ReadContainer.Volume[i], d |-> 1]]
        /\ (ReadContainer.fields # {} /\ "Volume" \notin ReadContainer.fields) =>
              datum.kind = "KeyError" /\ exit_status = -1
        /\ datum.kind = "return" => ReadContainer.fields # {}

\* C4 witness: the process has ended with status 2 on an empty container
C4_Witness ==
    /\ VolumeWasRead
    /\ ReadContainer.fields = {}
    /\ exit_status = 2
    /\ datum.kind = "SystemExit"

\* the positions predicted occupied at threshold th, and those occupied in
\* the ground truth
Predicted(th) == {p \in 1..NVox : RGe(generated_volume[p], th)}
Occupied == {p \in 1..NVox : ground_truth_volume[p] = One}

\* C5: for every threshold, fused volume and 0/1 ground truth, the
\* intersection counts the positions predicted and occupied, the union those
\* predicted or occupied, and whenever the union is positive
\* 0 <= intersection <= union and the IoU, their quotient, lies in [0, 1].
C5_IoUInUnitInterval ==
    pc = "measured" =>
        /\ Len(sample_iou) = Len(voxel_thresh)
        /\ \A i \in DOMAIN voxel_thresh :
              LET part == iou_parts[i]
                  both == Cardinality(Predicted(voxel_thresh[i]) \cap Occupied)
                  any == Cardinality(Predicted(voxel_thresh[i]) \cup Occupied)
              IN  /\ part.intersection = Rat(both, 1)
                  /\ part.union = Rat(any, 1)
                  /\ any > 0 =>
                        /\ RGe(part.intersection, Zero)
                        /\ RGe(part.union, part.intersection)
                        /\ sample_iou[i] = Rat(both, any)
                        /\ RGe(sample_iou[i], Zero)
                        /\ RGe(One, sample_iou[i])

\* C5 witness: an IoU strictly between 0 and 1 has been computed
C5_Witness ==
    /\ pc = "measured"
    /\ \E i \in DOMAIN sample_iou :
          /\ IsFinite(sample_iou[i])
          /\ sample_iou[i] # Zero
          /\ sample_iou[i] # One

\* the shape of a volume after the batch dimension, and that of the fused one
VolumeShape(volume) == <<Len(volume), Len(volume[1])>>
FusedShape(fused) == <<Len(fused)>>
Half(x, y) == RDiv(RAdd(x, y), Rat(2, 1))

\* C7 as stated: the fused volume has the shape of each of the two volumes and
\* every element is (left element + right element) / 2 at the same position.
C7_SameShapeElementwiseMean ==
    pc = "fused" /\ left_generated_volume # <<>> =>
        /\ FusedShape(generated_volume) = VolumeShape(left_generated_volume)
        /\ \A p \in 1..NVox :
              generated_volume[p] =
                Half(left_generated_volume[1][p], right_generated_volume[1][p])

\* C7 amended: the fused volume is the mean over dimension 1 of the two volumes
\* concatenated along dimension 1: it has the volumes' shape without
\* dimension 1, and each element is the sum of the entries of both volumes
\* over dimension 1 at that position divided by twice the size of dimension 1;
\* when dimension 1 has size 1 that is (left + right) / 2 at the position.
C7_MeanOverDimensionOne ==
    pc = "fused" /\ left_generated_volume # <<>> =>
        LET C == Len(left_generated_volume) IN
        /\ FusedShape(generated_volume) = Tail(VolumeShape(left_generated_volume))
        /\ \A p \in 1..NVox :
              /\ IsFinite(generated_volume[p])
              /\ RMul(generated_volume[p], Rat(2 * C, 1)) =
                    RAdd(RSum([c \in 1..C |-> left_generated_volume[c][p]]),
                         RSum([c \in 1..C |-> right_generated_volume[c][p]]))
              /\ C = 1 => generated_volume[p] =
                    Half(left_generated_volume[1][p], right_generated_volume[1][p])

\* C7 witness: two one-channel volumes that differ at a position are fused
C7_Witness ==
    /\ pc = "fused"
    /\ Len(left_generated_volume) = 1
    /\ \E p \in 1..NVox :
          /\ left_generated_volume[1][p] # right_generated_volume[1][p]
          /\ generated_volume[p] = Rat(1, 2)

(* claims about a whole pass of test_net *)
Ended == pc \in {"returned", "raised"}
\* a pass over at least one batch in which get_datum reads every volume
Decodable == \A i \in DOMAIN test_data_loader :
                "Volume" \in test_data_loader[i].container.fields
FullPass == test_data_loader # <<>> /\ Decodable
RECURSIVE SumN(_)
SumN(ns) == IF ns = <<>> THEN 0 ELSE Head(ns) + SumN(Tail(ns))
BucketCounts == [b \in DOMAIN test_iou |-> test_iou[b].n_samples]
\* the taxonomy ids of a sequence of batches, each at its first occurrence
RECURSIVE FirstEncounters(_, _)
FirstEncounters(batches, seen) ==
    IF batches = <<>> THEN <<>>
    ELSE IF Head(batches).taxonomy_id \in seen
         THEN FirstEncounters(Tail(batches), seen)
         ELSE <<Head(batches).taxonomy_id>>
              \o FirstEncounters(Tail(batches), seen \cup {Head(batches).taxonomy_id})

\* C1: a pass over samples that all load ends with the overall mean IoU vector
\* equal, at every threshold position, to the sum over the buckets of mean IoU
\* times sample count, divided by the total sample count of the buckets.
C1_OverallIsWeightedMean ==
    FullPass /\ Ended =>
        /\ pc = "returned"
        /\ \A k \in DOMAIN voxel_thresh :
              mean_iou[k] =
                RDiv(RSum([b \in DOMAIN test_iou |->
                              RMul(test_iou[b].iou[k], Rat(test_iou[b].n_samples, 1))]),
                     Rat(SumN(BucketCounts), 1))

\* C3: the pass either runs to completion or is ended by the volume decode of
\* the sample loader (sys.exit on an empty container, or the missing field).
C3_StopsOnlyOnVolumeDecode ==
    pc = "raised" => error \in {"SystemExit", "KeyError"}

\* C6: buckets exist only for taxonomies of samples met so far, and a pass over
\* samples that all load prints the header, one row per taxonomy in the order
\* of first encounter, then the Overall row.
C6_RowsInEncounterOrder ==
    /\ \A b \in DOMAIN test_iou :
          \E i \in 1..Len(test_data_loader) :
             /\ i <= sample_idx + 1
             /\ test_data_loader[i].taxonomy_id = test_iou[b].taxonomy_id
    /\ FullPass /\ Ended =>
          /\ pc = "returned"
          /\ Len(report) = Len(FirstEncounters(test_data_loader, {})) + 2
          /\ report[1].label = "Taxonomy"
          /\ report[Len(report)].label = "Overall"
          /\ \A r \in 1..Len(FirstEncounters(test_data_loader, {})) :
                report[r + 1].label = FirstEncounters(test_data_loader, {})[r]

\* C8: during the loop every stored IoU vector has one entry per configured
\* threshold, and after a pass over samples that all load every taxonomy with
\* a sample has a mean IoU vector of that length.
C8_VectorsHaveThresholdLength ==
    /\ pc \in {"loop", "body"} =>
          \A b \in DOMAIN test_iou : \A j \in DOMAIN test_iou[b].iou :
             Len(test_iou[b].iou[j]) = Len(voxel_thresh)
    /\ FullPass /\ Ended =>
          \A i \in DOMAIN test_data_loader :
             \E b \in DOMAIN test_iou :
                /\ test_iou[b].taxonomy_id = test_data_loader[i].taxonomy_id
                /\ Len(test_iou[b].iou) = Len(voxel_thresh)

\* C9: during the loop every bucket's n_samples is the length of its list and
\* the counts add up to the samples processed; when the loop over samples that
\* all load is over, the counts add up to n_samples = len(test_data_loader).
C9_CountsAddUp ==
    /\ pc \in {"loop", "body"} =>
          /\ \A b \in DOMAIN test_iou : test_iou[b].n_samples = Len(test_iou[b].iou)
          /\ SumN(BucketCounts) = sample_idx
    /\ FullPass /\ Ended =>
          /\ n_samples = Len(test_data_loader)
          /\ SumN(BucketCounts) = n_samples

\* C10: called with test_writer = None, a pass over samples that all load
\* makes no call on the sink, completes, and returns the largest entry of the
\* overall mean IoU vector.
C10_NoSinkStillReturns ==
    test_writer = "None" /\ FullPass /\ Ended =>
        /\ pc = "returned"
        /\ writer_calls = <<>>
        /\ max_iou = RMax(mean_iou)

(* lines 113-189, reached only with the names of LossNames bound
   (SpecNamesBound) *)
\* a pass that returns has the weighted overall mean, one report row per
\* taxonomy in encounter order, and counts that add up to n_samples
NamesBound_ReturnedPass ==
    pc = "returned" =>
        /\ n_samples = Len(test_data_loader)
        /\ SumN(BucketCounts) = n_samples
        /\ \A k \in DOMAIN voxel_thresh :
              mean_iou[k] =
                RDiv(RSum([b \in DOMAIN test_iou |->
                              RMul(test_iou[b].iou[k], Rat(test_iou[b].n_samples, 1))]),
                     Rat(SumN(BucketCounts), 1))
        /\ [r \in 1..(Len(report) - 2) |-> report[r + 1].label] =
              FirstEncounters(test_data_loader, {})
        /\ report[Len(report)].label = "Overall"
        /\ \A b \in DOMAIN test_iou : Len(test_iou[b].iou) = Len(voxel_thresh)
        /\ max_iou = RMax(mean_iou)
        /\ test_writer # "None" /\ output_dir # "None"
        /\ Len(writer_calls) = 6 * Len(test_data_loader) + 3
\* in the loop the buckets hold one vector of threshold length per sample
NamesBound_LoopBuckets ==
    pc \in {"loop", "body"} =>
        /\ SumN(BucketCounts) = sample_idx
        /\ \A b \in DOMAIN test_iou :
              /\ test_iou[b].n_samples = Len(test_iou[b].iou)
              /\ \A j \in DOMAIN test_iou[b].iou :
                    Len(test_iou[b].iou[j]) = Len(voxel_thresh)
\* without a sink, or without an output directory, the first sample raises
NamesBound_NoSinkRaises ==
    (test_writer = "None" \/ output_dir = "None") /\ FullPass /\ Ended =>
        pc = "raised" /\ error \in {"TypeError", "AttributeError"} /\ sample_idx = 0
NamesBound_Returned == pc = "returned" /\ Len(test_iou) = 2
====
